---- MODULE Spec2Model ----
(***************************************************************************)
(* A model of whitesymex, a symbolic execution engine for Whitespace:      *)
(*   - whitesymex/parser.py      the decoding of instruction parameters    *)
(*   - whitesymex/solver.py      the constraint store (Solver)             *)
(*   - whitesymex/state.py       the execution state (State)               *)
(*   - whitesymex/strategies/    the exploration strategies                *)
(*   - whitesymex/path_group.py  the stashes and explore()                 *)
(*                                                                         *)
(* Python objects are modelled by reference: a State holds references into *)
(* `objects`, the store of the mutable containers (deques, lists, dicts,   *)
(* Solver instances), so that aliasing between a state and its clone would *)
(* be visible.  The z3 solver is modelled by what the code asks of it:     *)
(* satisfiability of a constraint list and one satisfying assignment,      *)
(* chosen nondeterministically among the assignments over Universe.        *)
(***************************************************************************)
EXTENDS Integers, Sequences, FiniteSets, TLC

(***************************************************************************)
(* Bounds of the model.                                                    *)
(***************************************************************************)
\* The solver draws the value of a symbolic variable from -1..MaxVal and
\* from the two values around the byte ceiling.
MaxVal == 2
\* Strategy.step iterations allowed in one exploration.
MaxSteps == 40
\* loop_limit is None or 0..MaxLoopLimit.
MaxLoopLimit == 2
\* num_find is 1..MaxNumFind.
MaxNumFind == 2
\* The parser is run on texts of 1..MaxCode characters.
MaxCode == 4

(***************************************************************************)
(* Program constants.                                                      *)
(***************************************************************************)
\* 0xFF in State._read_symbolic_input; also the largest value bytes([v]) takes.
ByteMax == 255
\* bitlength = 24, the default of State.create_entry_state.
DefaultBitlength == 24
\* create_entry_state(..., bitlength=8): one byte per value
ByteBitlength == 8
\* loop_limit = None (PathGroup.explore's default).
NoLimit == -1

Universe == (-1 .. MaxVal) \cup {ByteMax, ByteMax + 1}

(***************************************************************************)
(* Values (state.py: Value = Union[int, z3.ExprRef]).  A concrete int is   *)
(* [k |-> "int", n |-> ..]; every other record is a z3 expression.         *)
(***************************************************************************)
IntV(n) == [k |-> "int", n |-> n]
Var(i) == [k |-> "var", i |-> i]
Bin(op, l, r) == [k |-> op, l |-> l, r |-> r]
Not(c) == [k |-> "not", a |-> c]

\* z3.is_expr
IsExpr(v) == v.k # "int"

Pow2(n) == 2 ^ n

\* A bit-vector value of width b as a signed integer; b = 0 stands for the
\* unbounded z3.Int mode (bitlength None).
Wrap(n, b) ==
    IF b = 0 THEN n
    ELSE LET w == Pow2(b)
             r == n % w
         IN IF 2 * r >= w THEN r - w ELSE r

\* Mutant of FloorDiv: the quotient is rounded toward zero, as C's / is.
TruncDiv(a, b) ==
    LET abs(n) == IF n < 0 THEN 0 - n ELSE n
        q == abs(a) \div abs(b)
    IN IF (a < 0) # (b < 0) THEN 0 - q ELSE q

\* Python's // and % on ints: floor division and its remainder.
FloorDiv(a, b) == IF b > 0 THEN a \div b ELSE (0 - a) \div (0 - b)
FloorMod(a, b) == a - b * FloorDiv(a, b)

RECURSIVE FreeVars(_)
FreeVars(e) ==
    CASE e.k = "int" -> {}
      [] e.k = "var" -> {e.i}
      [] e.k = "not" -> FreeVars(e.a)
      [] OTHER -> FreeVars(e.l) \cup FreeVars(e.r)

\* The value of z3 expression e under the assignment m (variable -> int):
\* arithmetic wraps at the width b, comparisons are signed.
RECURSIVE EvalExpr(_, _, _)
EvalExpr(e, m, b) ==
    CASE e.k = "int" -> Wrap(e.n, b)
      [] e.k = "var" -> m[e.i]
      [] e.k = "add" -> Wrap(EvalExpr(e.l, m, b) + EvalExpr(e.r, m, b), b)
      [] e.k = "sub" -> Wrap(EvalExpr(e.l, m, b) - EvalExpr(e.r, m, b), b)
      [] e.k = "mul" -> Wrap(EvalExpr(e.l, m, b) * EvalExpr(e.r, m, b), b)
      [] e.k = "mod" -> IF EvalExpr(e.r, m, b) = 0 THEN EvalExpr(e.l, m, b)
                        ELSE FloorMod(EvalExpr(e.l, m, b), EvalExpr(e.r, m, b))
      [] e.k = "eq" -> EvalExpr(e.l, m, b) = EvalExpr(e.r, m, b)
      [] e.k = "lt" -> EvalExpr(e.l, m, b) < EvalExpr(e.r, m, b)
      [] e.k = "le" -> EvalExpr(e.l, m, b) <= EvalExpr(e.r, m, b)
      [] e.k = "and" -> EvalExpr(e.l, m, b) /\ EvalExpr(e.r, m, b)
      [] e.k = "not" -> ~EvalExpr(e.a, m, b)

IsBoolExpr(e) == e.k \in {"eq", "lt", "le", "and", "not"}

(***************************************************************************)
(* Solver (solver.py).  A solver is the pair of its constraint list and    *)
(* its store (the model cache).                                            *)
(***************************************************************************)
RECURSIVE ConstraintVars(_)
ConstraintVars(cs) ==
    IF cs = <<>> THEN {} ELSE FreeVars(Head(cs)) \cup ConstraintVars(Tail(cs))

\* The assignments z3 may return for the constraint list cs: solver.check()
\* is sat exactly when this set is not empty.  A value is a bit-vector of
\* the width b.
Models(cs, b) ==
    {m \in [ConstraintVars(cs) -> {Wrap(u, b) : u \in Universe}] :
        \A i \in 1..Len(cs) : EvalExpr(cs[i], m, b)}

\* Solver.is_satisfiable, lines 48-51: the store takes the model's values.
StoreUpdate(store, m) ==
    [v \in DOMAIN store \cup DOMAIN m |->
        IF v \in DOMAIN m THEN m[v] ELSE store[v]]

\* Solver.eval can evaluate e: substitution of the store leaves no variable.
Evaluable(e, store) == FreeVars(e) \subseteq DOMAIN store

\* Solver.eval: a primitive is returned as is; a Boolean gives bool(result);
\* a numeral gives result.as_long(), which is unsigned for a bit-vector.
SolverEval(e, store, b) ==
    IF ~IsExpr(e) THEN e.n
    ELSE IF IsBoolExpr(e) THEN EvalExpr(e, store, b)
    ELSE LET v == EvalExpr(e, store, b)
         IN IF b = 0 THEN v ELSE v % Pow2(b)

\* Solver.eval of the condition of a conditional jump: the exception it
\* raises and the bool it returns.  When the store leaves a variable of the
\* condition unbound, simplify returns a BoolRef that is neither true nor
\* false; bool() of it compares the two sides of an equality structurally
\* (top and 0 differ) and raises on any other expression.
EvalCondition(c, store, b) ==
    IF Evaluable(c, store) THEN [exc |-> "none", holds |-> SolverEval(c, store, b)]
    ELSE IF c.k = "eq" THEN [exc |-> "none", holds |-> FALSE]
    ELSE [exc |-> "Z3Exception", holds |-> FALSE]

(***************************************************************************)
(* Python containers.  A dict is the list of its (key, val) items in       *)
(* insertion order; keys are compared structurally, as z3 expressions and  *)
(* ints are when they are dict keys.                                       *)
(***************************************************************************)
DictHas(dct, key) == \E i \in 1..Len(dct) : dct[i].key = key

DictGet(dct, key) ==
    dct[CHOOSE i \in 1..Len(dct) : dct[i].key = key].val

DictSet(dct, key, val) ==
    IF DictHas(dct, key)
    THEN [i \in 1..Len(dct) |->
            IF dct[i].key = key THEN [key |-> key, val |-> val] ELSE dct[i]]
    ELSE Append(dct, [key |-> key, val |-> val])

Pop(seq) == SubSeq(seq, 1, Len(seq) - 1)
Top(seq) == seq[Len(seq)]

\* str(n).encode(): the decimal digits of n, with a leading '-' (45).
RECURSIVE Digits(_)
Digits(n) == IF n < 10 THEN <<48 + n>> ELSE Append(Digits(n \div 10), 48 + (n % 10))
Decimal(n) == IF n < 0 THEN <<45>> \o Digits(0 - n) ELSE Digits(n)

\* b"".join(chunks)
RECURSIVE Join(_)
Join(chunks) == IF chunks = <<>> THEN <<>> ELSE Head(chunks) \o Join(Tail(chunks))

\* pat in text, on bytes
Contains(text, pat) ==
    \E i \in 0..(Len(text) - Len(pat)) : SubSeq(text, i + 1, i + Len(pat)) = pat

(***************************************************************************)
(* Exceptions.  "none" is a normal return.                                 *)
(***************************************************************************)
\* errors.py: the subclasses of SymbolicExecutionError, and the class itself.
SymbolicExecutionErrors ==
    {"EmptyStackError", "EmptyCallstackError", "DivideByZeroError",
     "SymbolicExecutionError"}

(***************************************************************************)
(* State (state.py), on a view of the state: the record of the contents of *)
(* its fields.  Each operation returns                                     *)
(*   d     the view when the operation returns or raises (the mutations    *)
(*         made before a raise are kept),                                  *)
(*   exc   the exception raised, or "none",                                *)
(*   succ  the successors returned: <<>>, <<"self">> or                    *)
(*         <<"self", "clone">>,                                            *)
(*   clone the view of the clone, when it is a successor.                  *)
(* `ans` is what z3 answers to the one is_satisfiable() the operation may  *)
(* make: [sat |-> .., m |-> the model].                                    *)
(***************************************************************************)
Ret(d, succ) == [d |-> d, exc |-> "none", succ |-> succ, clone |-> d]
Raise(d, exc) == [d |-> d, exc |-> exc, succ |-> <<>>, clone |-> d]
Fork(d, clone) == [d |-> d, exc |-> "none", succ |-> <<"self", "clone">>, clone |-> clone]

Advance(d) == [d EXCEPT !.ip = d.ip + 1]

\* Mutant of ByteRange: symvar <= 0x100.
ByteRangeOffByOne(v) == Bin("and", Bin("le", IntV(0), v), Bin("le", v, IntV(ByteMax + 1)))

\* 0 <= symvar, symvar <= 0xFF
ByteRange(v) == Bin("and", Bin("le", IntV(0), v), Bin("le", v, IntV(ByteMax)))

\* Solver.add of one constraint
SolverAdd(constraints, c) == Append(constraints, c)

\* Mutant of ReadInput: pop() for popleft().
ReadInputFromRight(d) ==
    IF d.input # <<>>
    THEN [d EXCEPT !.input = Pop(d.input), !.stdin = Append(d.stdin, Top(d.input))]
    ELSE LET symvar == Var(Len(d.stdin))
         IN [d EXCEPT !.constraints = SolverAdd(d.constraints,
                          Bin("and", Bin("le", IntV(0), symvar),
                                     Bin("le", symvar, IntV(ByteMax)))),
                      !.stdin = Append(d.stdin, symvar)]

\* State._read_symbolic_input, up to the call of is_satisfiable: the view
\* with the input consumed (or a fresh variable constrained) and logged.
ReadInput(d) ==
    IF d.input # <<>>
    THEN [d EXCEPT !.input = Tail(d.input), !.stdin = Append(d.stdin, Head(d.input))]
    ELSE LET symvar == Var(Len(d.stdin))
         IN [d EXCEPT !.constraints = SolverAdd(d.constraints, ByteRange(symvar)),
                      !.stdin = Append(d.stdin, symvar)]

\* State._read_char / State._read_number
Read(d, type, ans) ==
    IF d.stack = <<>> THEN Raise(d, "EmptyStackError")
    ELSE LET index == Top(d.stack)
             d1 == ReadInput([d EXCEPT !.stack = Pop(d.stack)])
             symvar == Top(d1.stdin)
         IN IF ~ans.sat THEN Ret(d1, <<>>)
            ELSE Ret([d1 EXCEPT !.store = StoreUpdate(d1.store, ans.m),
                                !.var_to_type = DictSet(d1.var_to_type, symvar, type),
                                !.heap = DictSet(d1.heap, index, symvar),
                                !.ip = d1.ip + 1],
                     <<"self">>)

\* State._print_char
PrintChar(d) ==
    IF d.stack = <<>> THEN Raise(d, "EmptyStackError")
    ELSE LET top == Top(d.stack)
             d1 == [d EXCEPT !.stack = Pop(d.stack)]
         IN IF ~Evaluable(top, d.store) THEN Raise(d1, "SolverError")
            ELSE LET value == SolverEval(top, d.store, d.bitlength)
                 IN IF value < 0 \/ value > ByteMax
                    THEN Raise(d1, "SymbolicExecutionError")
                    ELSE Ret(Advance([d1 EXCEPT !.stdout = Append(d1.stdout, <<value>>)]),
                             <<"self">>)

\* State._print_number
PrintNumber(d) ==
    IF d.stack = <<>> THEN Raise(d, "EmptyStackError")
    ELSE LET top == Top(d.stack)
             d1 == [d EXCEPT !.stack = Pop(d.stack)]
         IN IF ~Evaluable(top, d.store) THEN Raise(d1, "SolverError")
            ELSE LET number == SolverEval(top, d.store, d.bitlength)
                 IN Ret(Advance([d1 EXCEPT !.stdout = Append(d1.stdout, Decimal(number))]),
                        <<"self">>)

\* State._push
Push(d, n) == Ret(Advance([d EXCEPT !.stack = Append(d.stack, IntV(n))]), <<"self">>)

\* State._dup_top
DupTop(d) ==
    IF d.stack = <<>> THEN Raise(d, "EmptyStackError")
    ELSE Ret(Advance([d EXCEPT !.stack = Append(d.stack, Top(d.stack))]), <<"self">>)

\* State._swap_top2
SwapTop2(d) ==
    IF d.stack = <<>> THEN Raise(d, "EmptyStackError")
    ELSE LET top1 == Top(d.stack)
             s1 == Pop(d.stack)
         IN IF s1 = <<>> THEN Raise([d EXCEPT !.stack = s1], "EmptyStackError")
            ELSE Ret(Advance([d EXCEPT !.stack = Pop(s1) \o <<top1, Top(s1)>>]),
                     <<"self">>)

\* State._discard_top
DiscardTop(d) ==
    IF d.stack = <<>> THEN Raise(d, "EmptyStackError")
    ELSE Ret(Advance([d EXCEPT !.stack = Pop(d.stack)]), <<"self">>)

\* State._copy_to_top: self.stack[-1 - n] indexes the deque from its right
\* end when -1 - n is negative and from its left end otherwise.
CopyToTop(d, n) ==
    LET len == Len(d.stack)
        i == -1 - n
    IN IF i < 0 /\ 0 - i <= len
       THEN Ret(Advance([d EXCEPT !.stack = Append(d.stack, d.stack[len + i + 1])]),
                <<"self">>)
       ELSE IF i >= 0 /\ i < len
       THEN Ret(Advance([d EXCEPT !.stack = Append(d.stack, d.stack[i + 1])]),
                <<"self">>)
       ELSE Raise(d, "EmptyStackError")

\* State._slide_n_off: the top is popped, then n more (none when n <= 0).
SlideNOff(d, n) ==
    IF d.stack = <<>> THEN Raise(d, "EmptyStackError")
    ELSE LET top == Top(d.stack)
             s1 == Pop(d.stack)
             k == IF n < 0 THEN 0 ELSE n
         IN IF Len(s1) < k THEN Raise([d EXCEPT !.stack = <<>>], "EmptyStackError")
            ELSE Ret(Advance([d EXCEPT !.stack =
                                 Append(SubSeq(s1, 1, Len(s1) - k), top)]),
                     <<"self">>)

\* lhs op rhs on Values: ints reduce, a z3 operand gives a z3 expression.
Arith(op, lhs, rhs) ==
    IF IsExpr(lhs) \/ IsExpr(rhs) THEN Bin(op, lhs, rhs)
    ELSE CASE op = "add" -> IntV(lhs.n + rhs.n)
           [] op = "sub" -> IntV(lhs.n - rhs.n)
           [] op = "mul" -> IntV(lhs.n * rhs.n)

\* State._add / State._sub / State._mul
BinaryOp(d, op) ==
    IF d.stack = <<>> THEN Raise(d, "EmptyStackError")
    ELSE LET rhs == Top(d.stack)
             s1 == Pop(d.stack)
         IN IF s1 = <<>> THEN Raise([d EXCEPT !.stack = s1], "EmptyStackError")
            ELSE Ret(Advance([d EXCEPT !.stack =
                                 Append(Pop(s1), Arith(op, Top(s1), rhs))]),
                     <<"self">>)

\* State._div / State._mod.  z3 expressions define no //: lhs // rhs with a
\* z3 operand raises TypeError; lhs % rhs builds a z3 expression.
DivMod(d, op) ==
    IF d.stack = <<>> THEN Raise(d, "EmptyStackError")
    ELSE LET rhs == Top(d.stack)
             s1 == Pop(d.stack)
         IN IF s1 = <<>> THEN Raise([d EXCEPT !.stack = s1], "EmptyStackError")
            ELSE LET lhs == Top(s1)
                     d2 == [d EXCEPT !.stack = Pop(s1)]
                 IN IF ~Evaluable(rhs, d.store) THEN Raise(d2, "SolverError")
                    ELSE IF SolverEval(rhs, d.store, d.bitlength) = 0
                    THEN Raise(d2, "DivideByZeroError")
                    ELSE IF IsExpr(lhs) \/ IsExpr(rhs)
                    THEN IF op = "div" THEN Raise(d2, "TypeError")
                         ELSE Ret(Advance([d2 EXCEPT !.stack =
                                     Append(d2.stack, Bin("mod", lhs, rhs))]), <<"self">>)
                    ELSE Ret(Advance([d2 EXCEPT !.stack = Append(d2.stack,
                                IntV(IF op = "div" THEN FloorDiv(lhs.n, rhs.n)
                                     ELSE FloorMod(lhs.n, rhs.n)))]), <<"self">>)

\* State._do_nothing
DoNothing(d) == Ret(Advance(d), <<"self">>)

\* State._call
Call(d, labels, label) ==
    LET d1 == [d EXCEPT !.callstack = Append(d.callstack, d.ip + 1)]
    IN IF label \notin DOMAIN labels THEN Raise(d1, "KeyError")
       ELSE Ret([d1 EXCEPT !.ip = labels[label]], <<"self">>)

\* State._jump
Jump(d, labels, label) ==
    IF label \notin DOMAIN labels THEN Raise(d, "KeyError")
    ELSE Ret([d EXCEPT !.ip = labels[label]], <<"self">>)

\* The condition State._jump_if_zero / State._jump_if_negative build from
\* the popped top: a z3 expression when top is one.
Condition(op, top) ==
    IF op = "JUMP_IF_ZERO" THEN Bin("eq", top, IntV(0)) ELSE Bin("lt", top, IntV(0))

\* Mutant of ConcreteCondition: the tests of the two jumps are exchanged.
ConcreteConditionExchanged(op, top) ==
    IF op = "JUMP_IF_ZERO" THEN top.n < 0 ELSE top.n = 0

\* The same condition on an int: a Python bool.
ConcreteCondition(op, top) ==
    IF op = "JUMP_IF_ZERO" THEN top.n = 0 ELSE top.n < 0

\* Mutant of CloneView: the clone keeps the Solver() of State.__init__.
CloneViewFreshSolver(d) == [d EXCEPT !.constraints = << >>, !.store = << >>]

\* State.clone with Solver.clone, on the contents: the clone's containers
\* hold what those of self hold.
CloneView(d) == d

\* Mutant of SymbolicJump: the clone is given the condition of self, not
\* its negation.
SymbolicJumpSameCondition(d, condition, target_ip, ans) ==
    IF EvalCondition(condition, d.store, d.bitlength).exc # "none"
    THEN Raise(d, EvalCondition(condition, d.store, d.bitlength).exc)
    ELSE LET holds == EvalCondition(condition, d.store, d.bitlength).holds
             c == IF holds THEN condition ELSE Not(condition)
             taken == [d EXCEPT !.constraints = SolverAdd(d.constraints, c),
                                !.ip = IF holds THEN target_ip ELSE d.ip + 1]
             not_taken == [d EXCEPT !.constraints = SolverAdd(d.constraints, c),
                                    !.ip = IF holds THEN d.ip + 1 ELSE target_ip]
         IN IF ans.sat
            THEN Fork(taken, [not_taken EXCEPT !.store = StoreUpdate(not_taken.store, ans.m)])
            ELSE Ret(taken, <<"self">>)

\* State._conditional_jump on a z3 condition, lines 367-384: self keeps the
\* branch its store supports, the clone takes the other one and is a
\* successor when its constraints are satisfiable.
SymbolicJump(d, condition, target_ip, ans) ==
    IF EvalCondition(condition, d.store, d.bitlength).exc # "none"
    THEN Raise(d, EvalCondition(condition, d.store, d.bitlength).exc)
    ELSE LET holds == EvalCondition(condition, d.store, d.bitlength).holds
             taken == IF holds
                      THEN [d EXCEPT !.constraints = SolverAdd(d.constraints, condition),
                                     !.ip = target_ip]
                      ELSE [d EXCEPT !.constraints = SolverAdd(d.constraints, Not(condition)),
                                     !.ip = d.ip + 1]
             copy == CloneView(d)
             not_taken == IF holds
                          THEN [copy EXCEPT !.constraints =
                                               SolverAdd(copy.constraints, Not(condition)),
                                            !.ip = copy.ip + 1]
                          ELSE [copy EXCEPT !.constraints =
                                               SolverAdd(copy.constraints, condition),
                                            !.ip = target_ip]
         IN IF ans.sat
            THEN Fork(taken, [not_taken EXCEPT !.store = StoreUpdate(not_taken.store, ans.m)])
            ELSE Ret(taken, <<"self">>)

\* State._jump_if_zero / State._jump_if_negative with State._conditional_jump
ConditionalJump(d, labels, op, label, ans) ==
    IF d.stack = <<>> THEN Raise(d, "EmptyStackError")
    ELSE LET top == Top(d.stack)
             d1 == [d EXCEPT !.stack = Pop(d.stack)]
         IN IF label \notin DOMAIN labels THEN Raise(d1, "KeyError")
            ELSE IF ~IsExpr(top)
            THEN IF ConcreteCondition(op, top)
                 THEN Ret([d1 EXCEPT !.ip = labels[label]], <<"self">>)
                 ELSE Ret(Advance(d1), <<"self">>)
            ELSE SymbolicJump(d1, Condition(op, top), labels[label], ans)

\* Mutant of Return: the oldest return address is taken, pop(0) for pop().
ReturnOldest(d) ==
    IF d.callstack = <<>> THEN Raise(d, "EmptyCallstackError")
    ELSE Ret([d EXCEPT !.callstack = Tail(d.callstack), !.ip = Head(d.callstack)],
             <<"self">>)

\* State._return
Return(d) ==
    IF d.callstack = <<>> THEN Raise(d, "EmptyCallstackError")
    ELSE Ret([d EXCEPT !.callstack = Pop(d.callstack), !.ip = Top(d.callstack)],
             <<"self">>)

\* Mutant of Exit: _exit returns [self], as every other operation does.
ExitReturnsSelf(d) == Ret(Advance(d), <<"self">>)

\* State._exit
Exit(d) == Ret(Advance(d), <<>>)

\* Mutant of Store: heap[value] = index.
StoreExchanged(d) ==
    IF d.stack = <<>> THEN Raise(d, "EmptyStackError")
    ELSE LET value == Top(d.stack)
             s1 == Pop(d.stack)
         IN IF s1 = <<>> THEN Raise([d EXCEPT !.stack = s1], "EmptyStackError")
            ELSE Ret(Advance([d EXCEPT !.stack = Pop(s1),
                                       !.heap = DictSet(d.heap, value, Top(s1))]),
                     <<"self">>)

\* State._store
Store(d) ==
    IF d.stack = <<>> THEN Raise(d, "EmptyStackError")
    ELSE LET value == Top(d.stack)
             s1 == Pop(d.stack)
         IN IF s1 = <<>> THEN Raise([d EXCEPT !.stack = s1], "EmptyStackError")
            ELSE Ret(Advance([d EXCEPT !.stack = Pop(s1),
                                       !.heap = DictSet(d.heap, Top(s1), value)]),
                     <<"self">>)

\* State._retrieve: heap is a defaultdict(int), a read of an absent index
\* inserts 0 there.
Retrieve(d) ==
    IF d.stack = <<>> THEN Raise(d, "EmptyStackError")
    ELSE LET index == Top(d.stack)
             heap1 == IF DictHas(d.heap, index) THEN d.heap
                      ELSE DictSet(d.heap, index, IntV(0))
         IN Ret(Advance([d EXCEPT !.stack = Append(Pop(d.stack), DictGet(heap1, index)),
                                  !.heap = heap1]),
                <<"self">>)

\* The constraint list the operation at d.ip hands to is_satisfiable(), when
\* it comes to call it: [asked |-> .., cs |-> the list].
NoQuery == [asked |-> FALSE, cs |-> <<>>]
Query(d, ins) ==
    IF d.stack = <<>> THEN NoQuery
    ELSE IF ins.op \in {"READ_CHAR", "READ_NUMBER"}
    THEN [asked |-> TRUE, cs |-> ReadInput([d EXCEPT !.stack = Pop(d.stack)]).constraints]
    ELSE IF ins.op \in {"JUMP_IF_ZERO", "JUMP_IF_NEGATIVE"} /\ IsExpr(Top(d.stack))
            /\ EvalCondition(Condition(ins.op, Top(d.stack)), d.store, d.bitlength).exc = "none"
    THEN LET c == Condition(ins.op, Top(d.stack))
         IN [asked |-> TRUE,
             cs |-> SolverAdd(d.constraints,
                              IF EvalCondition(c, d.store, d.bitlength).holds
                              THEN Not(c) ELSE c)]
    ELSE NoQuery

\* What z3 may answer to is_satisfiable() on the list cs.
Unsat == [sat |-> FALSE, m |-> <<>>]
Answers(q, b) ==
    IF ~q.asked \/ Models(q.cs, b) = {} THEN {Unsat}
    ELSE {[sat |-> TRUE, m |-> m] : m \in Models(q.cs, b)}

\* State.step, lines 196-197: the dispatch through self.operations.
Exec(d, ins, labels, ans) ==
    CASE ins.op = "READ_CHAR" -> Read(d, "CHAR", ans)
      [] ins.op = "READ_NUMBER" -> Read(d, "NUMBER", ans)
      [] ins.op = "PRINT_CHAR" -> PrintChar(d)
      [] ins.op = "PRINT_NUMBER" -> PrintNumber(d)
      [] ins.op = "PUSH" -> Push(d, ins.parameter)
      [] ins.op = "DUP_TOP" -> DupTop(d)
      [] ins.op = "SWAP_TOP2" -> SwapTop2(d)
      [] ins.op = "DISCARD_TOP" -> DiscardTop(d)
      [] ins.op = "COPY_TO_TOP" -> CopyToTop(d, ins.parameter)
      [] ins.op = "SLIDE_N_OFF" -> SlideNOff(d, ins.parameter)
      [] ins.op = "ADD" -> BinaryOp(d, "add")
      [] ins.op = "SUB" -> BinaryOp(d, "sub")
      [] ins.op = "MUL" -> BinaryOp(d, "mul")
      [] ins.op = "DIV" -> DivMod(d, "div")
      [] ins.op = "MOD" -> DivMod(d, "mod")
      [] ins.op = "MARK" -> DoNothing(d)
      [] ins.op = "CALL" -> Call(d, labels, ins.parameter)
      [] ins.op = "JUMP" -> Jump(d, labels, ins.parameter)
      [] ins.op \in {"JUMP_IF_ZERO", "JUMP_IF_NEGATIVE"} ->
            ConditionalJump(d, labels, ins.op, ins.parameter, ans)
      [] ins.op = "RETURN" -> Return(d)
      [] ins.op = "EXIT" -> Exit(d)
      [] ins.op = "STORE" -> Store(d)
      [] ins.op = "RETRIEVE" -> Retrieve(d)

\* State.concretize of the stdin log: [exc |-> .., bytes |-> ..].
RECURSIVE ConcretizeFrom(_, _, _)
ConcretizeFrom(d, i, acc) ==
    IF i > Len(d.stdin) THEN [exc |-> "none", bytes |-> acc]
    ELSE LET var == d.stdin[i]
         IN IF ~Evaluable(var, d.store) THEN [exc |-> "SolverError", bytes |-> acc]
            ELSE IF ~DictHas(d.var_to_type, var) THEN [exc |-> "KeyError", bytes |-> acc]
            ELSE LET value == SolverEval(var, d.store, d.bitlength)
                 IN IF DictGet(d.var_to_type, var) = "CHAR"
                    THEN IF value < 0 \/ value > ByteMax
                         THEN [exc |-> "ValueError", bytes |-> acc]
                         ELSE ConcretizeFrom(d, i + 1, Append(acc, value))
                    ELSE ConcretizeFrom(d, i + 1, acc \o Decimal(value))
Concretize(d) == ConcretizeFrom(d, 1, <<>>)

(***************************************************************************)
(* Objects.  A State is the record of its ip, its bitlength and the        *)
(* references of its containers; a Solver is the record of the references  *)
(* of its constraints and its store.  Reference 0 is None.                 *)
(***************************************************************************)
\* The objects one State owns: stack, callstack, heap, input, stdin, stdout,
\* var_to_type, solver, solver.constraints, solver.store.
ObjectsPerState == 10

\* State.__init__ as create_entry_state and clone call it: the State whose
\* containers are the ObjectsPerState references after base.
NewState(base, hasInput, bitlength) ==
    [ip |-> 0, stack |-> base + 1, callstack |-> base + 2, heap |-> base + 3,
     input |-> IF hasInput THEN base + 4 ELSE 0,
     stdin |-> base + 5, stdout |-> base + 6, var_to_type |-> base + 7,
     solver |-> base + 8, bitlength |-> bitlength]

\* Solver.__init__ with the empty containers of State.__init__.
NewObjects(base) ==
    <<<< >>, << >>, << >>, << >>, << >>, << >>, << >>,
      [constraints |-> base + 9, store |-> base + 10], << >>, << >>>>

\* Mutant of CloneRefs: state.stack = self.stack, without .copy().
CloneRefsSharedStack(s, base) ==
    [NewState(base, s.input # 0, s.bitlength) EXCEPT !.ip = s.ip, !.stack = s.stack]

\* State.clone with Solver.clone: the clone holds copies, none of the
\* containers of s.
CloneRefs(s, base) ==
    [NewState(base, s.input # 0, s.bitlength) EXCEPT !.ip = s.ip]

\* The contents of the fields of State s.
View(s, objs) ==
    [ip |-> s.ip, bitlength |-> s.bitlength,
     stack |-> objs[s.stack], callstack |-> objs[s.callstack], heap |-> objs[s.heap],
     input |-> IF s.input = 0 THEN << >> ELSE objs[s.input],
     stdin |-> objs[s.stdin], stdout |-> objs[s.stdout],
     var_to_type |-> objs[s.var_to_type],
     constraints |-> objs[objs[s.solver].constraints],
     store |-> objs[objs[s.solver].store]]

\* The objects after the containers of State s were mutated into the view d.
WriteBack(objs, s, d) ==
    [r \in DOMAIN objs |->
        CASE r = s.stack -> d.stack
          [] r = s.callstack -> d.callstack
          [] r = s.heap -> d.heap
          [] r = s.input -> d.input
          [] r = s.stdin -> d.stdin
          [] r = s.stdout -> d.stdout
          [] r = s.var_to_type -> d.var_to_type
          [] r = objs[s.solver].constraints -> d.constraints
          [] r = objs[s.solver].store -> d.store
          [] OTHER -> objs[r]]

(***************************************************************************)
(* Programs and explore() arguments the exploration is run on.             *)
(***************************************************************************)
I(op) == [op |-> op, parameter |-> 0]
IP(op, parameter) == [op |-> op, parameter |-> parameter]

\* EXIT alone.
ProgExit == <<I("EXIT")>>

\* A concrete loop: prints "1\n2\n".
ProgCount ==
    <<IP("PUSH", 1), IP("MARK", 0), I("DUP_TOP"), I("PRINT_NUMBER"), IP("PUSH", 10),
      I("PRINT_CHAR"), IP("PUSH", 1), I("ADD"), I("DUP_TOP"), IP("PUSH", 3), I("SUB"),
      IP("JUMP_IF_ZERO", 1), IP("JUMP", 0), IP("MARK", 1), I("DISCARD_TOP"), I("EXIT")>>

\* Reads a char, prints it as a number, then branches on it: prints "A" when
\* it is not 0 and "BA" when it is.
ProgBranch ==
    <<IP("PUSH", 0), I("READ_CHAR"), IP("PUSH", 0), I("RETRIEVE"), I("DUP_TOP"),
      I("PRINT_NUMBER"), IP("JUMP_IF_ZERO", 0), IP("PUSH", 65), I("PRINT_CHAR"), I("EXIT"),
      IP("MARK", 0), IP("PUSH", 66), I("PRINT_CHAR"), IP("PUSH", 65), I("PRINT_CHAR"),
      I("EXIT")>>

\* Reads a char and branches on it: divides by zero when it is not 0 and
\* returns with an empty callstack when it is.
ProgErrors ==
    <<IP("PUSH", 0), I("READ_CHAR"), IP("PUSH", 0), I("RETRIEVE"), IP("JUMP_IF_ZERO", 0),
      IP("PUSH", 1), IP("PUSH", 0), I("DIV"), I("EXIT"),
      IP("MARK", 0), I("RETURN")>>

\* A conditional jump on an empty stack.
ProgUnderflow == <<IP("JUMP_IF_ZERO", 0), IP("MARK", 0), I("EXIT")>>

\* PRINT_CHAR of a value that is no byte, after an ADD that underflows in
\* the other program.
ProgPrintBad == <<IP("PUSH", 300), I("PRINT_CHAR"), I("EXIT")>>
ProgAddUnderflow == <<IP("PUSH", 1), I("ADD"), I("EXIT")>>

\* No EXIT: the ip runs past the last instruction.
ProgFallOff == <<IP("PUSH", 1), I("DISCARD_TOP")>>

\* A loop on a symbolic condition: loops while the char read is not 0.
ProgLoop ==
    <<IP("PUSH", 0), I("READ_CHAR"), IP("MARK", 0), IP("PUSH", 0), I("RETRIEVE"),
      IP("JUMP_IF_ZERO", 1), IP("JUMP", 0), IP("MARK", 1), I("EXIT")>>

\* Concrete heap, arithmetic, call and stack operations: prints "-4" then "3".
ProgCalc ==
    <<IP("PUSH", 0), IP("PUSH", -7), I("STORE"), IP("PUSH", 0), I("RETRIEVE"),
      IP("PUSH", 2), I("DIV"), I("PRINT_NUMBER"), IP("PUSH", 0), I("RETRIEVE"),
      IP("PUSH", 2), I("MOD"), IP("CALL", 0), I("EXIT"),
      IP("MARK", 0), I("DUP_TOP"), IP("JUMP_IF_NEGATIVE", 1), IP("PUSH", 3),
      I("SWAP_TOP2"), IP("COPY_TO_TOP", 1), I("MUL"), IP("SLIDE_N_OFF", 1),
      I("PRINT_NUMBER"), I("RETURN"), IP("MARK", 1), I("EXIT")>>

\* Two paths that meet again on a second symbolic conditional (ip 8).
ProgJoin ==
    <<IP("PUSH", 0), I("READ_CHAR"), IP("PUSH", 0), I("RETRIEVE"), IP("JUMP_IF_ZERO", 0),
      IP("MARK", 0), IP("PUSH", 0), I("RETRIEVE"), IP("JUMP_IF_ZERO", 1),
      IP("MARK", 1), I("EXIT")>>

\* A cycle through no conditional jump.
ProgSpin == <<IP("MARK", 0), IP("JUMP", 0)>>

\* Three paths on one char: it is 0, it is 1, or it is 2 or more.
ProgThree ==
    <<IP("PUSH", 0), I("READ_CHAR"), IP("PUSH", 0), I("RETRIEVE"), IP("JUMP_IF_ZERO", 0),
      IP("PUSH", 0), I("RETRIEVE"), IP("PUSH", 2), I("SUB"), IP("JUMP_IF_NEGATIVE", 0),
      IP("MARK", 0), I("EXIT")>>

\* Reads a char, then a number.
ProgReads ==
    <<IP("PUSH", 0), I("READ_CHAR"), IP("PUSH", 1), I("READ_NUMBER"), I("EXIT")>>

\* Nested calls: the callstack holds 1 and 4 at ip 5.
ProgNest ==
    <<IP("CALL", 0), I("EXIT"), IP("MARK", 0), IP("CALL", 1), I("RETURN"),
      IP("MARK", 1), I("RETURN")>>

\* Heap cells: a RETRIEVE of a cell never written, two STOREs, a RETRIEVE
\* of a cell written; prints "5".
ProgHeap ==
    <<IP("PUSH", 1), I("RETRIEVE"), IP("PUSH", 2), IP("PUSH", 5), I("STORE"),
      IP("PUSH", 1), IP("PUSH", 7), I("STORE"), IP("PUSH", 2), I("RETRIEVE"),
      I("PRINT_NUMBER"), I("EXIT")>>

\* Division by a negative int, then by 0: prints "-4" and "-1".
ProgArith ==
    <<IP("PUSH", 7), IP("PUSH", -2), I("DIV"), I("PRINT_NUMBER"),
      IP("PUSH", -7), IP("PUSH", -2), I("MOD"), I("PRINT_NUMBER"),
      IP("PUSH", 3), IP("PUSH", 0), I("MOD"), I("EXIT")>>

\* COPY_TO_TOP with a negative parameter, then with one past the depth.
ProgCopy ==
    <<IP("PUSH", 5), IP("PUSH", 6), IP("COPY_TO_TOP", -1), I("PRINT_NUMBER"),
      IP("COPY_TO_TOP", 2), I("EXIT")>>

\* Arithmetic on a char read: prints the char minus 1, then branches on
\* the char times 2^23 and prints "N" when that is not negative.
ProgWrap ==
    <<IP("PUSH", 0), I("READ_CHAR"), IP("PUSH", 0), I("RETRIEVE"), IP("PUSH", 1),
      I("SUB"), I("PRINT_NUMBER"), IP("PUSH", 0), I("RETRIEVE"), IP("PUSH", 2048),
      I("MUL"), IP("PUSH", 4096), I("MUL"), IP("JUMP_IF_NEGATIVE", 0), IP("PUSH", 78),
      I("PRINT_CHAR"), IP("MARK", 0), I("EXIT")>>

Programs ==
    <<ProgExit, ProgCount, ProgBranch, ProgErrors, ProgUnderflow, ProgPrintBad,
      ProgAddUnderflow, ProgFallOff, ProgLoop, ProgJoin, ProgCalc, ProgThree,
      ProgReads, ProgSpin, ProgNest, ProgHeap, ProgArith, ProgCopy, ProgWrap>>

\* A symbol the caller made (z3.BitVec("flag_0", 24)), as test_spaceship
\* passes in stdin.
Flag == Var(100)

\* The calls of State.create_entry_state explored: the program, the stdin
\* list, and the constraints the caller adds to state.solver before
\* explore().  Every program runs without stdin; some run with ints, with
\* more values than they read, and with a symbol of the caller; one runs
\* with bit-vectors of one byte.
Entry(instrs, input, constraints) ==
    [instructions |-> instrs, stdin |-> input, constraints |-> constraints,
     bitlength |-> DefaultBitlength]
EntryOfWidth(instrs, bitlength) ==
    [Entry(instrs, << >>, << >>) EXCEPT !.bitlength = bitlength]
Entries ==
    {Entry(Programs[p], << >>, << >>) : p \in 1..Len(Programs)}
    \cup {Entry(ProgReads, <<IntV(65), IntV(65)>>, << >>),
          Entry(ProgReads, <<IntV(0)>>, << >>),
          Entry(ProgReads, <<IntV(65), IntV(66), IntV(67)>>, << >>),
          Entry(ProgReads, <<Flag>>, <<Bin("le", IntV(1), Flag)>>),
          Entry(ProgBranch, <<Flag>>, << >>),
          Entry(ProgBranch, <<Flag>>, <<Bin("le", IntV(1), Flag)>>),
          Entry(ProgJoin, <<Flag>>, << >>),
          EntryOfWidth(ProgBranch, ByteBitlength)}

\* find / avoid: None, or the bytes looked for in stdout.
NoCondition == [none |-> TRUE, bytes |-> << >>]
Bytes(b) == [none |-> FALSE, bytes |-> b]
Finds == {NoCondition, Bytes(<<65>>), Bytes(<<49, 66>>)}
Avoids == {NoCondition, Bytes(<<66>>)}
Strategies == {"BFS", "DFS", "Random"}
LoopLimits == {NoLimit} \cup (0 .. MaxLoopLimit)
NumFinds == 1 .. MaxNumFind

\* state.py, _get_labels: the ip of the last MARK of each label.
GetLabels(instrs) ==
    LET marks == {i \in 1..Len(instrs) : instrs[i].op = "MARK"}
        ids == {instrs[i].parameter : i \in marks}
    IN [l \in ids |->
          (CHOOSE i \in marks : /\ instrs[i].parameter = l
                                /\ \A j \in marks : instrs[j].parameter = l => j <= i) - 1]

\* Mutant of Holds: None is looked for as b"" is.
HoldsNoneAsEmpty(condition, d) == Contains(Join(d.stdout), condition.bytes)

\* path_group.py, condition_to_lambda, applied to the state of view d.
Holds(condition, d) ==
    /\ ~condition.none
    /\ Contains(Join(d.stdout), condition.bytes)

(***************************************************************************)
(* Parser (parser.py): the decoding of the parameter of an instruction.    *)
(* A text is the sequence of its characters, each a space, a tab or a      *)
(* linefeed (parse_code removes every other character).                    *)
(***************************************************************************)
\* parameter.py: the members of Parameter, each by its value.  The two
\* values are equal, and Enum makes a member whose value is already taken
\* an alias of the first one: Parameter.LABEL is Parameter.NUMBER.
ParameterNUMBER == "([\\t ]+)\\n"
ParameterLABEL == "([\\t ]+)\\n"

\* ops.py: the Parameter member of the operations that take a parameter.
NumberOps == {"PUSH", "COPY_TO_TOP", "SLIDE_N_OFF"}
LabelOps == {"MARK", "CALL", "JUMP", "JUMP_IF_ZERO", "JUMP_IF_NEGATIVE"}
OpParameter(o) == IF o \in NumberOps THEN ParameterNUMBER ELSE ParameterLABEL

\* The longest run of tabs and spaces of text from position i on.
RECURSIVE Blanks(_, _)
Blanks(text, i) ==
    IF i <= Len(text) /\ text[i] \in {" ", "\t"}
    THEN <<text[i]>> \o Blanks(text, i + 1)
    ELSE << >>

\* re.match(parameter.pattern, code[offset:]).group(1): the run of tabs and
\* spaces at offset when it is not empty and a linefeed ends it; << >>
\* stands for no match.
Match(text, offset) ==
    LET run == Blanks(text, offset + 1)
        end == offset + Len(run) + 1
    IN IF run # << >> /\ end <= Len(text) /\ text[end] = "\n" THEN run ELSE << >>

\* int(bitstring, 2)
RECURSIVE Int2(_)
Int2(bitstring) ==
    IF bitstring = << >> THEN 0 ELSE 2 * Int2(Pop(bitstring)) + Top(bitstring)

\* parser.py, _get_parameter_value: [exc, value, size].
NotParsed == [exc |-> "none", value |-> 0, size |-> 0]
GetParameterValue(parameter, text, offset) ==
    LET value == Match(text, offset)
        bitstring == [i \in 1..Len(value) |-> IF value[i] = " " THEN 0 ELSE 1]
        size == Len(value) + 1
    IN IF value = << >> THEN [exc |-> "UnknownParameterError", value |-> 0, size |-> 0]
       ELSE IF parameter = ParameterNUMBER
       THEN IF Len(bitstring) = 1 THEN [exc |-> "none", value |-> 0, size |-> size]
            ELSE [exc |-> "none",
                  value |-> IF bitstring[1] = 1 THEN Int2(Tail(bitstring)) * (-1)
                            ELSE Int2(Tail(bitstring)),
                  size |-> size]
       ELSE IF parameter = ParameterLABEL
       THEN [exc |-> "none", value |-> Int2(bitstring), size |-> size]
       ELSE [exc |-> "ParameterDecodeError", value |-> 0, size |-> 0]

(***************************************************************************)
(* The exploration: PathGroup.explore running Strategy.run.                *)
(***************************************************************************)
VARIABLES
    instructions,   \* the program
    labels,         \* State.labels
    strategy, find, avoid, loop_limit, num_find,   \* the arguments of explore()
    states,         \* the State objects created, by identity
    objects,        \* the containers and Solvers, by reference
    active, deadended, found, avoided, errored,    \* PathGroup stashes: State identities
    loop_counts,    \* Strategy.loop_counts
    pc,             \* where Strategy.run stands: "run", "for", "step", "done", "raised"
    selected,       \* the rest of `states` in the for loop of Strategy.run
    cur,            \* the state Strategy.step is stepping
    exc,            \* the exception explore() raised
    steps,          \* iterations of the loop of Strategy.step so far
    dropped,        \* history: the states the loop budget dropped
    cond_steps,     \* history: per ip, the state.step() calls on a symbolic conditional
    stdin,          \* the stdin argument of State.create_entry_state
    reads,          \* history: per state, the kinds of the reads on its path
    parse_code,     \* parser: the text at the parameter of an instruction
    parse_op,       \* parser: the operation whose parameter is decoded
    parse_result          \* parser: what _get_parameter_value returned or raised

vars == <<instructions, labels, strategy, find, avoid, loop_limit, num_find, states,
          objects, active, deadended, found, avoided, errored, loop_counts, pc,
          selected, cur, exc, steps, dropped, cond_steps, stdin, reads,
          parse_code, parse_op, parse_result>>

parser == <<parse_code, parse_op, parse_result>>
params == <<instructions, labels, strategy, find, avoid, loop_limit, num_find, stdin,
            parser>>
stashes == <<active, deadended, found, avoided, errored>>

\* State.create_entry_state and PathGroup.__init__, then explore() up to the
\* first test of Strategy.run.
Init ==
    /\ \E e \in Entries :
        /\ instructions = e.instructions
        /\ stdin = e.stdin
        /\ states = <<NewState(0, e.stdin # << >>, e.bitlength)>>
        /\ objects = [NewObjects(0) EXCEPT ![4] = e.stdin, ![9] = e.constraints]
    /\ labels = GetLabels(instructions)
    /\ strategy \in Strategies
    /\ find \in Finds
    /\ avoid \in Avoids
    /\ loop_limit \in LoopLimits
    /\ num_find \in NumFinds
    /\ active = <<1>>
    /\ deadended = << >>
    /\ found = << >>
    /\ avoided = << >>
    /\ errored = << >>
    /\ loop_counts = [ip \in 0..Len(instructions) |-> 0]
    /\ pc = "run"
    /\ selected = << >>
    /\ cur = 0
    /\ exc = "none"
    /\ steps = 0
    /\ dropped = {}
    /\ cond_steps = [ip \in 0..Len(instructions) |-> 0]
    /\ reads = <<<< >>>>
    /\ parse_code = << >>
    /\ parse_op = "EXIT"
    /\ parse_result = NotParsed

\* Mutant of BFSSelect: only the first active state is selected, active is
\* cleared all the same.
BFSSelectFirstOnly(act) == [states |-> <<Head(act)>>, active |-> << >>]

\* Mutant of BFSSelect: active is not cleared.
BFSSelectKeepsActive(act) == [states |-> act, active |-> act]

\* BFS.select_states: [states |-> the list returned, active |-> what is left]
BFSSelect(act) == [states |-> act, active |-> << >>]
\* Mutant of DFSSelect: pop(0) for pop().
DFSSelectOldest(act) == [states |-> <<Head(act)>>, active |-> Tail(act)]

\* DFS.select_states
DFSSelect(act) == [states |-> <<Top(act)>>, active |-> Pop(act)]
\* Random.select_states, with index the value random.randrange returned
RandomSelect(act, index) ==
    [states |-> <<act[index + 1]>>,
     active |-> SubSeq(act, 1, index) \o SubSeq(act, index + 2, Len(act))]

\* Strategy.run, lines 133-134, under each strategy.
Select(sel) ==
    /\ pc = "run"
    /\ active # << >>
    /\ selected' = sel.states
    /\ active' = sel.active
    /\ pc' = "for"
    /\ UNCHANGED <<params, states, objects, deadended, found, avoided, errored,
                   loop_counts, cur, exc, steps, dropped, cond_steps, reads>>

SelectBFS == strategy = "BFS" /\ Select(BFSSelect(active))
SelectDFS == strategy = "DFS" /\ Select(DFSSelect(active))
SelectRandom ==
    /\ strategy = "Random"
    /\ \E index \in 0..(Len(active) - 1) : Select(RandomSelect(active, index))

\* Strategy.run, line 133: the loop ends when active is empty.
RunReturn ==
    /\ pc = "run"
    /\ active = << >>
    /\ pc' = "done"
    /\ UNCHANGED <<params, states, objects, stashes, loop_counts, selected, cur, exc,
                   steps, dropped, cond_steps, reads>>

\* Strategy.run, line 135: the next state of the for loop, or back to the
\* while test.
ForNext ==
    /\ pc = "for"
    /\ IF selected = << >>
       THEN pc' = "run" /\ UNCHANGED <<selected, cur>>
       ELSE pc' = "step" /\ cur' = Head(selected) /\ selected' = Tail(selected)
    /\ UNCHANGED <<params, states, objects, stashes, loop_counts, exc, steps, dropped,
                   cond_steps, reads>>

\* Mutant of IsSymbolicConditional: every operand counts as symbolic.
IsSymbolicConditionalAnyOperand(d, ins) ==
    IF ins.op \notin {"JUMP_IF_ZERO", "JUMP_IF_NEGATIVE"} THEN "False"
    ELSE IF d.stack = << >> THEN "EmptyStackError"
    ELSE "True"

\* strategy.py, is_symbolic_conditional, on the view d standing on ins:
\* "True", "False", or the exception _stack_peek raises.
IsSymbolicConditional(d, ins) ==
    IF ins.op \notin {"JUMP_IF_ZERO", "JUMP_IF_NEGATIVE"} THEN "False"
    ELSE IF d.stack = << >> THEN "EmptyStackError"
    ELSE IF IsExpr(Top(d.stack)) THEN "True" ELSE "False"

\* Mutant of BudgetSpent: > for >=.
BudgetSpentOffByOne(count, limit) == count > limit

\* Strategy.step, line 100: the budget of the conditional is spent.
BudgetSpent(count, limit) == count >= limit

\* Mutant of CountLoop: the counter is not incremented.
CountLoopForgets(counts, ip) == counts

\* Strategy.step, line 102
CountLoop(counts, ip) == [counts EXCEPT ![ip] = @ + 1]

\* Strategy.step, line 113
IsPrint(op) == op \in {"PRINT_CHAR", "PRINT_NUMBER"}

\* What one iteration of the loop of Strategy.step leaves behind:
\*   kind        "continue" (line 123), "return" or "raise"
\*   none        the value returned is None
\*   successors  the list returned otherwise
NoEffect ==
    [states |-> states, objects |-> objects, loop_counts |-> loop_counts,
     cond_steps |-> cond_steps, dropped |-> dropped, reads |-> reads,
     errored |-> errored,
     found |-> found, avoided |-> avoided, kind |-> "return", exc |-> "none",
     none |-> TRUE, successors |-> << >>]

\* Strategy.step, lines 104-124, once the budget let the state through.
\* r is what state.step() did, counts the loop counts by then.
AfterStateStep(s, ins, r, counts) ==
    LET states1 == [states EXCEPT ![cur].ip = r.d.ip]
        objs1 == WriteBack(objects, s, r.d)
        symbolic == IsSymbolicConditional(View(s, objects), ins) = "True"
        logged == Len(r.d.stdin) > Len(View(s, objects).stdin)
        reads1 == IF logged
                  THEN [reads EXCEPT ![cur] =
                           Append(@, IF ins.op = "READ_CHAR" THEN "CHAR" ELSE "NUMBER")]
                  ELSE reads
        o == [NoEffect EXCEPT !.states = states1, !.objects = objs1,
                               !.loop_counts = counts, !.reads = reads1,
                               !.cond_steps = IF symbolic
                                              THEN [cond_steps EXCEPT ![s.ip] = @ + 1]
                                              ELSE cond_steps]
    IN IF r.exc \in SymbolicExecutionErrors
       THEN [o EXCEPT !.errored = Append(errored, cur)]
       ELSE IF r.exc # "none"
       THEN [o EXCEPT !.kind = "raise", !.exc = r.exc]
       ELSE IF IsPrint(ins.op) /\ Holds(find, r.d)
       THEN [o EXCEPT !.found = Append(found, cur)]
       ELSE IF IsPrint(ins.op) /\ Holds(avoid, r.d)
       THEN [o EXCEPT !.avoided = Append(avoided, cur)]
       ELSE IF Len(r.succ) = 1
       THEN [o EXCEPT !.kind = "continue"]
       ELSE IF Len(r.succ) = 0
       THEN [o EXCEPT !.none = FALSE]
       ELSE LET base == Len(objs1)
                clone == [CloneRefs(s, base) EXCEPT !.ip = r.clone.ip]
            IN [o EXCEPT !.states = Append(states1, clone),
                         !.objects = WriteBack(objs1 \o NewObjects(base), clone, r.clone),
                         !.reads = Append(reads1, reads1[cur]),
                         !.none = FALSE,
                         !.successors = <<cur, Len(states) + 1>>]

\* One iteration of the loop of Strategy.step on the state cur: every
\* outcome z3's answers allow.
StepOutcomes ==
    LET s == states[cur]
        d == View(s, objects)
    IN IF s.ip >= Len(instructions)
       THEN \* state.instruction: the list index raises IndexError, which the
            \* property does not catch
            {[NoEffect EXCEPT !.kind = "raise", !.exc = "IndexError"]}
       ELSE LET ins == instructions[s.ip + 1]
                symbolic == IF loop_limit # NoLimit
                            THEN IsSymbolicConditional(d, ins) ELSE "False"
            IN IF symbolic = "EmptyStackError"
               THEN {[NoEffect EXCEPT !.kind = "raise", !.exc = "EmptyStackError"]}
               ELSE IF symbolic = "True" /\ BudgetSpent(loop_counts[s.ip], loop_limit)
               THEN {[NoEffect EXCEPT !.dropped = dropped \cup {cur}]}
               ELSE LET counts == IF symbolic = "True"
                                  THEN CountLoop(loop_counts, s.ip) ELSE loop_counts
                    IN {AfterStateStep(s, ins, Exec(d, ins, labels, ans), counts) :
                          ans \in Answers(Query(d, ins), d.bitlength)}

\* Mutant of EnoughFound: > for >=.
EnoughFoundOffByOne(fnd) == Len(fnd) > num_find

\* Strategy.run, line 137
EnoughFound(fnd) == Len(fnd) >= num_find

\* One iteration of the loop of Strategy.step and, when step returns, the
\* rest of the body of the for loop of Strategy.run (lines 137-146).
Step ==
    /\ pc = "step"
    /\ steps < MaxSteps
    /\ steps' = steps + 1
    /\ \E o \in StepOutcomes :
        /\ states' = o.states
        /\ objects' = o.objects
        /\ loop_counts' = o.loop_counts
        /\ cond_steps' = o.cond_steps
        /\ dropped' = o.dropped
        /\ reads' = o.reads
        /\ errored' = o.errored
        /\ found' = o.found
        /\ avoided' = o.avoided
        /\ exc' = o.exc
        /\ IF o.kind = "raise" THEN pc' = "raised" /\ UNCHANGED <<active, deadended>>
           ELSE IF o.kind = "continue" THEN pc' = "step" /\ UNCHANGED <<active, deadended>>
           ELSE IF EnoughFound(o.found) THEN pc' = "done" /\ UNCHANGED <<active, deadended>>
           ELSE /\ pc' = "for"
                /\ IF o.none THEN UNCHANGED <<active, deadended>>
                   ELSE IF o.successors # << >>
                   THEN active' = active \o o.successors /\ UNCHANGED deadended
                   ELSE deadended' = Append(deadended, cur) /\ UNCHANGED active
    /\ UNCHANGED <<params, selected, cur>>

Next == SelectBFS \/ SelectDFS \/ SelectRandom \/ RunReturn \/ ForNext \/ Step

Spec == Init /\ [][Next]_vars

\* The transitions of Step, by what they do to pc and steps.
StepTaken == pc = "step" /\ steps < MaxSteps /\ steps' = steps + 1

\* explore() is one sequential loop: Strategy.run and Strategy.step take
\* their next iteration as long as there is one.
FairSpec ==
    /\ Spec
    /\ WF_vars(SelectBFS \/ SelectDFS \/ SelectRandom \/ RunReturn \/ ForNext)
    /\ WF_steps(StepTaken)

(***************************************************************************)
(* The parser run on the parameter of one instruction: parse_code, lines   *)
(* 88-91, on every text of 1..MaxCode characters.                          *)
(***************************************************************************)
RECURSIVE Texts(_)
Texts(n) ==
    IF n = 0 THEN {<< >>}
    ELSE {Append(t, c) : t \in Texts(n - 1), c \in {" ", "\t", "\n"}}

\* No exploration takes place.
NoExploration ==
    /\ instructions = << >>
    /\ labels = GetLabels(instructions)
    /\ strategy = "BFS"
    /\ find = NoCondition
    /\ avoid = NoCondition
    /\ loop_limit = NoLimit
    /\ num_find = 1
    /\ stdin = << >>
    /\ states = << >>
    /\ objects = << >>
    /\ active = << >>
    /\ deadended = << >>
    /\ found = << >>
    /\ avoided = << >>
    /\ errored = << >>
    /\ loop_counts = [ip \in 0..0 |-> 0]
    /\ pc = "done"
    /\ selected = << >>
    /\ cur = 0
    /\ exc = "none"
    /\ steps = 0
    /\ dropped = {}
    /\ cond_steps = [ip \in 0..0 |-> 0]
    /\ reads = << >>

ParserInit ==
    /\ NoExploration
    /\ parse_code \in UNION {Texts(n) : n \in 1..MaxCode}
    /\ parse_op \in NumberOps \cup LabelOps
    /\ parse_result = NotParsed

\* parse_code, line 90
ParseParameter ==
    /\ parse_result = NotParsed
    /\ parse_result' = GetParameterValue(OpParameter(parse_op), parse_code, 0)
    /\ UNCHANGED <<instructions, labels, strategy, find, avoid, loop_limit, num_find,
                   stdin, states, objects, stashes, loop_counts, pc, selected, cur, exc,
                   steps, dropped, cond_steps, reads, parse_code, parse_op>>

ParserNext == ParseParameter

ParserSpec == ParserInit /\ [][ParserNext]_vars

(***************************************************************************)
(* The reference: a concrete Whitespace interpreter on plain integers, run *)
(* on a program and the bytes of its standard input.  It is what the       *)
(* properties below compare the engine with; it models no code of the      *)
(* engine.  A configuration is [ip, stack, callstack, heap, input, out,    *)
(* read, status], status "run" while the program runs, then "exit", "end"  *)
(* (ran past the last instruction), "eof", "error" or "fuel".              *)
(***************************************************************************)
RefHeapGet(heap, index) == IF index \in DOMAIN heap THEN heap[index] ELSE 0
RefHeapSet(heap, index, value) ==
    [i \in DOMAIN heap \cup {index} |-> IF i = index THEN value ELSE heap[i]]

\* The decimal number at the head of input, up to a newline or its end.
RECURSIVE RefParseNumber(_, _)
RefParseNumber(input, acc) ==
    IF input = << >> THEN [n |-> acc, rest |-> << >>]
    ELSE IF Head(input) = 10 THEN [n |-> acc, rest |-> Tail(input)]
    ELSE IF Head(input) < 48 \/ Head(input) > 57 THEN [n |-> acc, rest |-> input]
    ELSE RefParseNumber(Tail(input), 10 * acc + Head(input) - 48)

RefStop(c, status) == [c EXCEPT !.status = status]

RefStep(c, instrs, labs) ==
    LET ins == instrs[c.ip + 1]
        op == ins.op
        n == Len(c.stack)
        next == [c EXCEPT !.ip = c.ip + 1]
        need == CASE op \in {"READ_CHAR", "READ_NUMBER", "PRINT_CHAR", "PRINT_NUMBER",
                             "DUP_TOP", "DISCARD_TOP", "SLIDE_N_OFF", "JUMP_IF_ZERO",
                             "JUMP_IF_NEGATIVE", "RETRIEVE"} -> 1
                  [] op \in {"SWAP_TOP2", "ADD", "SUB", "MUL", "DIV", "MOD", "STORE"} -> 2
                  [] OTHER -> 0
    IN IF n < need THEN RefStop(c, "error")
       ELSE CASE op = "PUSH" -> [next EXCEPT !.stack = Append(c.stack, ins.parameter)]
         [] op = "DUP_TOP" -> [next EXCEPT !.stack = Append(c.stack, c.stack[n])]
         [] op = "SWAP_TOP2" ->
                [next EXCEPT !.stack = SubSeq(c.stack, 1, n - 2) \o <<c.stack[n], c.stack[n - 1]>>]
         [] op = "DISCARD_TOP" -> [next EXCEPT !.stack = SubSeq(c.stack, 1, n - 1)]
         [] op = "COPY_TO_TOP" ->
                IF ins.parameter < 0 \/ ins.parameter >= n THEN RefStop(c, "error")
                ELSE [next EXCEPT !.stack = Append(c.stack, c.stack[n - ins.parameter])]
         [] op = "SLIDE_N_OFF" ->
                IF ins.parameter < 0 \/ ins.parameter >= n THEN RefStop(c, "error")
                ELSE [next EXCEPT !.stack =
                         Append(SubSeq(c.stack, 1, n - 1 - ins.parameter), c.stack[n])]
         [] op \in {"ADD", "SUB", "MUL", "DIV", "MOD"} ->
                LET a == c.stack[n - 1]
                    b == c.stack[n]
                IN IF op \in {"DIV", "MOD"} /\ b = 0 THEN RefStop(c, "error")
                   ELSE [next EXCEPT !.stack = Append(SubSeq(c.stack, 1, n - 2),
                            CASE op = "ADD" -> a + b
                              [] op = "SUB" -> a - b
                              [] op = "MUL" -> a * b
                              [] op = "DIV" -> FloorDiv(a, b)
                              [] op = "MOD" -> FloorMod(a, b))]
         [] op = "STORE" ->
                [next EXCEPT !.stack = SubSeq(c.stack, 1, n - 2),
                             !.heap = RefHeapSet(c.heap, c.stack[n - 1], c.stack[n])]
         [] op = "RETRIEVE" ->
                [next EXCEPT !.stack = Append(SubSeq(c.stack, 1, n - 1),
                                              RefHeapGet(c.heap, c.stack[n]))]
         [] op = "MARK" -> next
         [] op \in {"CALL", "JUMP", "JUMP_IF_ZERO", "JUMP_IF_NEGATIVE"} ->
                IF ins.parameter \notin DOMAIN labs THEN RefStop(c, "error")
                ELSE LET popped == IF op \in {"JUMP_IF_ZERO", "JUMP_IF_NEGATIVE"}
                                   THEN SubSeq(c.stack, 1, n - 1) ELSE c.stack
                         jumps == CASE op = "JUMP_IF_ZERO" -> c.stack[n] = 0
                                    [] op = "JUMP_IF_NEGATIVE" -> c.stack[n] < 0
                                    [] OTHER -> TRUE
                     IN [c EXCEPT !.stack = popped,
                                  !.callstack = IF op = "CALL" THEN Append(@, c.ip + 1) ELSE @,
                                  !.ip = IF jumps THEN labs[ins.parameter] ELSE c.ip + 1]
         [] op = "RETURN" ->
                IF c.callstack = << >> THEN RefStop(c, "error")
                ELSE [c EXCEPT !.ip = c.callstack[Len(c.callstack)],
                               !.callstack = SubSeq(@, 1, Len(@) - 1)]
         [] op = "EXIT" -> RefStop(c, "exit")
         [] op = "PRINT_CHAR" ->
                IF c.stack[n] < 0 \/ c.stack[n] > ByteMax THEN RefStop(c, "error")
                ELSE [next EXCEPT !.stack = SubSeq(c.stack, 1, n - 1),
                                  !.out = Append(c.out, c.stack[n])]
         [] op = "PRINT_NUMBER" ->
                [next EXCEPT !.stack = SubSeq(c.stack, 1, n - 1),
                             !.out = c.out \o Decimal(c.stack[n])]
         [] op = "READ_CHAR" ->
                IF c.input = << >> THEN RefStop([c EXCEPT !.read = TRUE], "eof")
                ELSE [next EXCEPT !.stack = SubSeq(c.stack, 1, n - 1), !.read = TRUE,
                                  !.heap = RefHeapSet(c.heap, c.stack[n], Head(c.input)),
                                  !.input = Tail(c.input)]
         [] op = "READ_NUMBER" ->
                IF c.input = << >> THEN RefStop([c EXCEPT !.read = TRUE], "eof")
                ELSE LET parsed == RefParseNumber(c.input, 0)
                     IN [next EXCEPT !.stack = SubSeq(c.stack, 1, n - 1), !.read = TRUE,
                                     !.heap = RefHeapSet(c.heap, c.stack[n], parsed.n),
                                     !.input = parsed.rest]

RECURSIVE RefLoop(_, _, _, _)
RefLoop(c, instrs, labs, fuel) ==
    IF c.status # "run" THEN c
    ELSE IF c.ip >= Len(instrs) THEN RefStop(c, "end")
    ELSE IF fuel = 0 THEN RefStop(c, "fuel")
    ELSE RefLoop([RefStep(c, instrs, labs) EXCEPT !.steps = @ + 1], instrs, labs, fuel - 1)

RefRun(instrs, input) ==
    RefLoop([ip |-> 0, stack |-> << >>, callstack |-> << >>, heap |-> << >>,
             input |-> input, out |-> << >>, read |-> FALSE, status |-> "run",
             steps |-> 0],
            instrs, GetLabels(instrs), MaxSteps)

(***************************************************************************)
(* Properties.                                                             *)
(***************************************************************************)
StateView(id) == View(states[id], objects)
InSeq(x, seq) == \E i \in 1..Len(seq) : seq[i] = x
NoDuplicates(seq) == \A i, j \in 1..Len(seq) : seq[i] = seq[j] => i = j
IsPrefix(a, b) == Len(a) <= Len(b) /\ SubSeq(b, 1, Len(a)) = a
Satisfies(m, cs, b) == \A i \in 1..Len(cs) : EvalExpr(cs[i], m, b)
Stashed == active \o deadended \o found \o avoided \o errored
Returned == pc = "done"

\* explore() was called with its default arguments.
DefaultArguments ==
    /\ strategy = "BFS"
    /\ find = NoCondition
    /\ avoid = NoCondition
    /\ loop_limit = NoLimit
    /\ num_find = 1

\* The program reaches no READ and ends by EXIT without error.
ConcretelyDetermined(instrs) ==
    LET r == RefRun(instrs, << >>) IN r.status = "exit" /\ ~r.read

\* C1: for a program that reaches no READ and ends by EXIT without error,
\* explore() with default arguments does not raise, takes the steps of the
\* concrete run, and ends with exactly one state in deadended, the other
\* stashes empty, the stdout of that state being the output of the reference
\* interpreter.
C1_ConcreteProgramDeadends ==
    (DefaultArguments /\ ConcretelyDetermined(instructions)) =>
        LET r == RefRun(instructions, << >>)
        IN /\ pc # "raised"
           /\ steps <= r.steps
           /\ Returned =>
                /\ Len(deadended) = 1
                /\ active = << >> /\ found = << >> /\ avoided = << >> /\ errored = << >>
                /\ Join(StateView(deadended[1]).stdout) = r.out

C1_Witness ==
    /\ DefaultArguments
    /\ instructions = ProgCount
    /\ Returned
    /\ Len(deadended) = 1
    /\ Join(StateView(deadended[1]).stdout) = <<49, 10, 50, 10>>

\* C2: when explore() has returned, for every state in found or deadended
\* the reference run of the program on state.concretize() gives an output
\* that satisfies find (for a found state) and does not satisfy avoid.
C2_ConcretizedInputReproduces ==
    Returned =>
        \A id \in DOMAIN states :
            (InSeq(id, found) \/ InSeq(id, deadended)) =>
                LET input == Concretize(StateView(id))
                    out == [stdout |-> <<RefRun(instructions, input.bytes).out>>]
                IN /\ input.exc = "none"
                   /\ InSeq(id, found) => Holds(find, out)
                   /\ ~Holds(avoid, out)

\* C3: at every point of explore() no state is twice in the stashes: the
\* five stashes are pairwise disjoint and none holds a state twice.
C3_StashesDisjoint == NoDuplicates(Stashed)

C3_Witness ==
    /\ Len(states) >= 2
    /\ found # << >>
    /\ active # << >>
    /\ pc = "done"

\* C4: when explore() returns, every state created that the loop budget did
\* not drop lies in exactly one of the five stashes.
C4_NoStateLost ==
    Returned =>
        \A id \in DOMAIN states :
            id \notin dropped => Cardinality({i \in 1..Len(Stashed) : Stashed[i] = id}) = 1

\* C5: a stack underflow, callstack underflow, division by zero or
\* unconvertible PRINT_CHAR value never makes explore() raise.
C5_ErrorsNeverRaise == ~(pc = "raised" /\ exc \in SymbolicExecutionErrors)

\* C6: a state whose ip is past the last instruction is terminal: explore()
\* does not raise on it (it is placed in deadended).
C6_PastEndIsTerminal ==
    pc = "raised" => states[cur].ip < Len(instructions)

\* A Step in which state.step() returned two successors.
ForkStep == pc = "step" /\ Len(states') = Len(states) + 1

\* C7: when a conditional jump on a symbolic condition c, in a state with
\* path condition P, returns two successors, their constraint lists are P
\* with c and P with not c; no assignment satisfies both; every assignment
\* satisfying P satisfies one of them; the successor holding c stands on
\* labels[label] and the one holding not c on the old ip + 1.
C7_ForkDisjoint ==
    [][ForkStep =>
        LET old == StateView(cur)
            ins == instructions[old.ip + 1]
            c == Condition(ins.op, Top(old.stack))
            P == old.constraints
            a == View(states'[cur], objects')
            b == View(states'[Len(states')], objects')
        IN /\ {a.constraints, b.constraints} = {Append(P, c), Append(P, Not(c))}
           /\ \A x \in {a, b} :
                x.ip = IF Top(x.constraints) = c THEN labels[ins.parameter] ELSE old.ip + 1
           /\ \A m \in [ConstraintVars(Append(P, c)) -> Universe] :
                /\ ~(Satisfies(m, a.constraints, old.bitlength)
                        /\ Satisfies(m, b.constraints, old.bitlength))
                /\ Satisfies(m, P, old.bitlength) =>
                        \/ Satisfies(m, a.constraints, old.bitlength)
                        \/ Satisfies(m, b.constraints, old.bitlength)
    ]_vars

C7_Witness ==
    /\ Len(states) = 2
    /\ active = <<1, 2>>
    /\ StateView(1).ip # StateView(2).ip
    /\ Top(StateView(2).constraints) = Not(Top(StateView(1).constraints))

\* C8: a step of one state leaves the fields of every other state
\* unchanged (ip, stack, callstack, heap, pending input, stdin log, stdout,
\* var_to_type, constraint list, model cache), a clone and the state it was
\* cloned from included; no step changes instructions or labels.
C8_NoSharedMutableState ==
    [][/\ instructions' = instructions
       /\ labels' = labels
       /\ pc = "step" =>
            \A id \in DOMAIN states :
                id # cur => View(states'[id], objects') = View(states[id], objects)
    ]_vars

C8_Witness ==
    /\ Len(states) = 2
    /\ StateView(1).stdout # StateView(2).stdout
    /\ StateView(1).stack # StateView(2).stack
    /\ StateView(1).store # StateView(2).store

\* C9: every step leaves the constraint list of each state as a prefix of
\* its new one, and the constraint list of a new clone has the pre-fork list
\* of the state it was cloned from as a prefix.
C9_ConstraintsOnlyGrow ==
    [][\A id \in DOMAIN states' :
          IsPrefix(View(states[IF id \in DOMAIN states THEN id ELSE cur], objects).constraints,
                   View(states'[id], objects').constraints)
    ]_vars

C9_Witness ==
    /\ Len(states) = 2
    /\ Len(StateView(1).constraints) >= 2
    /\ Len(StateView(2).constraints) >= 2
    /\ IsPrefix(Pop(StateView(1).constraints), StateView(2).constraints)

\* C10: with loop_limit = k, no counter of an ip exceeds k, and the symbolic
\* conditional at an ip is executed as often as its counter says, so at most
\* k times over all states of the exploration.
C10_LoopBudget ==
    loop_limit # NoLimit =>
        \A ip \in DOMAIN loop_counts :
            /\ loop_counts[ip] <= loop_limit
            /\ cond_steps[ip] = loop_counts[ip]

\* Two different states spent the budget of the conditional at ip 8 of
\* ProgJoin, and a third arrival was dropped.
C10_Witness ==
    /\ instructions = ProgJoin
    /\ loop_limit = 1
    /\ loop_counts[8] = 1
    /\ cond_steps[4] = 1
    /\ dropped # {}
    /\ Len(states) = 2

(***************************************************************************)
(* Termination, filtering, selection, input and parameters.                *)
(***************************************************************************)
ConditionalOps == {"JUMP_IF_ZERO", "JUMP_IF_NEGATIVE"}

\* The ips control can pass to from the instruction at ip, by the text of
\* the program: a RETURN can pass to the instruction after any CALL.
FlowSuccessors(instrs, labs, ip) ==
    LET ins == instrs[ip + 1]
        target == IF ins.parameter \in DOMAIN labs THEN {labs[ins.parameter]} ELSE {}
    IN CASE ins.op \in {"JUMP", "CALL"} -> target
         [] ins.op \in ConditionalOps -> target \cup {ip + 1}
         [] ins.op = "RETURN" -> {i \in 1..Len(instrs) : instrs[i].op = "CALL"}
         [] ins.op = "EXIT" -> {}
         [] OTHER -> {ip + 1}

\* The ips left of nodes once those with no successor among them are
\* removed, again and again: the ips on or leading to a cycle within nodes.
RECURSIVE FlowPrune(_, _, _)
FlowPrune(instrs, labs, nodes) ==
    LET live == {v \in nodes : FlowSuccessors(instrs, labs, v) \cap nodes # {}}
    IN IF live = nodes THEN nodes ELSE FlowPrune(instrs, labs, live)

\* Every control-flow cycle of the program passes through a conditional jump.
CyclesThroughConditionals(instrs, labs) ==
    FlowPrune(instrs, labs,
              {ip \in 0..(Len(instrs) - 1) : instrs[ip + 1].op \notin ConditionalOps}) = {}

\* Strategy.step stands on a conditional jump whose operand is not symbolic.
ConcreteConditional ==
    /\ pc = "step"
    /\ states[cur].ip < Len(instructions)
    /\ instructions[states[cur].ip + 1].op \in ConditionalOps
    /\ IsSymbolicConditional(StateView(cur), instructions[states[cur].ip + 1]) # "True"

\* explore() has ended; when it returned, it did so on an empty active stash
\* or on enough found states.
Terminated ==
    /\ pc \in {"done", "raised"}
    /\ pc = "done" => (active = << >> \/ Len(found) >= num_find)

C12_StopsAtNumFind ==
    /\ Len(found) <= num_find
    /\ Len(found) >= num_find => Returned
    /\ (Returned /\ Len(found) < num_find) => active = << >>

C12_Witness ==
    /\ Returned
    /\ num_find = 2
    /\ Len(found) = 2
    /\ Len(states) = 2

\* C13: a state enters found or avoided only at the end of a step of that
\* state whose instruction is PRINT_CHAR or PRINT_NUMBER, found when find
\* holds of it and avoided when find does not and avoid does; after every
\* such step that raises nothing the state matching find enters found and
\* the one matching only avoid enters avoided; a state in found or avoided
\* is not stepped again; with find = None found stays empty and with
\* avoid = None avoided stays empty.
C13_FilterAfterPrint ==
    [][/\ (found' # found \/ avoided' # avoided) =>
            /\ pc = "step"
            /\ IsPrint(instructions[states[cur].ip + 1].op)
            /\ pc' # "step"
            /\ \/ /\ found' = Append(found, cur)
                  /\ avoided' = avoided
                  /\ Holds(find, View(states'[cur], objects'))
               \/ /\ avoided' = Append(avoided, cur)
                  /\ found' = found
                  /\ Holds(avoid, View(states'[cur], objects'))
                  /\ ~Holds(find, View(states'[cur], objects'))
       /\ (/\ pc = "step"
           /\ states[cur].ip < Len(instructions)
           /\ IsPrint(instructions[states[cur].ip + 1].op)
           /\ errored' = errored
           /\ pc' # "raised") =>
            /\ Holds(find, View(states'[cur], objects')) => found' = Append(found, cur)
            /\ (/\ ~Holds(find, View(states'[cur], objects'))
                /\ Holds(avoid, View(states'[cur], objects')))
                    => avoided' = Append(avoided, cur)
       /\ pc' = "step" => ~InSeq(cur', found') /\ ~InSeq(cur', avoided')
       /\ find = NoCondition => found' = << >>
       /\ avoid = NoCondition => avoided' = << >>
    ]_vars

\* A state that matches both find and avoid is in found.
C13_Witness ==
    /\ found # << >>
    /\ avoided = << >>
    /\ Holds(find, StateView(found[1]))
    /\ Holds(avoid, StateView(found[1]))

\* C14: on a non-empty active, select_states returns a non-empty list of
\* states and removes them from active: BFS returns active as it is and
\* leaves it empty, DFS returns its last state, Random one of its states;
\* DFS and Random leave the other states in active, in their order.
C14_SelectStates ==
    [][(pc = "run" /\ active # << >>) =>
        LET n == Len(active)
            Without(i) == [j \in 1..(n - 1) |-> IF j < i THEN active[j] ELSE active[j + 1]]
        IN /\ selected' # << >>
           /\ \A i \in 1..Len(selected') :
                InSeq(selected'[i], active) /\ ~InSeq(selected'[i], active')
           /\ strategy = "BFS" => selected' = active /\ active' = << >>
           /\ strategy = "DFS" => selected' = <<active[n]>> /\ active' = Without(n)
           /\ strategy = "Random" =>
                \E i \in 1..n : selected' = <<active[i]>> /\ active' = Without(i)
    ]_vars

\* Random took the middle one of three active states.
C14_Witness ==
    /\ strategy = "Random"
    /\ pc = "for"
    /\ selected = <<2>>
    /\ active = <<1, 3>>

\* C15: when a symbolic conditional yields two successors, the one that
\* jumps (it holds the condition, its ip is labels[label]) is appended to
\* active before the one that falls through (it holds the negation, its ip
\* is the old ip + 1).
C15_TakenBeforeNotTaken ==
    [][(ForkStep /\ active' # active) =>
        LET old == StateView(cur)
            ins == instructions[old.ip + 1]
            c == Condition(ins.op, Top(old.stack))
            n == Len(active')
            first == View(states'[active'[n - 1]], objects')
            second == View(states'[active'[n]], objects')
        IN /\ Top(first.constraints) = c
           /\ first.ip = labels[ins.parameter]
           /\ Top(second.constraints) = Not(c)
           /\ second.ip = old.ip + 1
    ]_vars

\* The values a path of n reads consumes: those of the stdin argument in
\* their order, then fresh symbols input_<position>.
Consumed(n) == [i \in 1..n |-> IF i <= Len(stdin) THEN stdin[i] ELSE Var(i - 1)]

\* C16: the stdin log of each state is, one entry per read of its path, the
\* values of the stdin argument in their order followed by fresh symbols,
\* a fresh symbol only once the argument is used up; the pending input is
\* the rest of the argument; and no step shortens or reorders a log (the
\* log of a clone extends the log of the state it was cloned from).
C16_ReadOrder ==
    [][\A id \in DOMAIN states' :
          LET new == View(states'[id], objects')
              old == View(states[IF id \in DOMAIN states THEN id ELSE cur], objects)
              n == Len(new.stdin)
          IN /\ IsPrefix(old.stdin, new.stdin)
             /\ n = Len(reads'[id])
             /\ new.stdin = Consumed(n)
             /\ new.input = SubSeq(stdin, n + 1, Len(stdin))
    ]_vars

\* A path consumed the one value of the argument, then a fresh symbol.
C16_Witness ==
    /\ instructions = ProgReads
    /\ stdin = <<IntV(0)>>
    /\ Len(states) = 1
    /\ StateView(1).stdin = <<IntV(0), Var(1)>>
    /\ reads[1] = <<"CHAR", "NUMBER">>

\* The bytes of a value read by an instruction of the given kind.
Render(value, kind) == IF kind = "CHAR" THEN <<value>> ELSE Decimal(value)

\* C17: for a state whose consumed inputs have values under its model, byte
\* values for those read by READ_CHAR, concretize() returns the values in
\* read order, each rendered by the kind of the read that consumed it.
C17_ConcretizeRendering ==
    \A id \in DOMAIN states :
        LET d == StateView(id)
            value(i) == SolverEval(d.stdin[i], d.store, d.bitlength)
        IN (/\ Len(reads[id]) = Len(d.stdin)
            /\ \A i \in 1..Len(d.stdin) :
                 /\ Evaluable(d.stdin[i], d.store)
                 /\ DictHas(d.var_to_type, d.stdin[i])
                 /\ reads[id][i] = "CHAR" => value(i) \in 0..ByteMax)
            => /\ Concretize(d).exc = "none"
               /\ Concretize(d).bytes =
                    Join([i \in 1..Len(d.stdin) |-> Render(value(i), reads[id][i])])

\* The number a bit string denotes, its first bit the most significant.
BinaryValue(bitstring) ==
    LET n == Len(bitstring)
        Sum[i \in 0..n] == IF i = 0 THEN 0 ELSE Sum[i - 1] + bitstring[i] * Pow2(n - i)
    IN Sum[n]

\* C18: for the parameter of MARK, CALL, JUMP, JUMP_IF_ZERO and
\* JUMP_IF_NEGATIVE, made of tabs and spaces ended by a linefeed, the parser
\* returns the number whose binary representation is the whole bit string
\* (space 0, tab 1, first bit the most significant, no sign bit).
C18_LabelIsWholeBitString ==
    (/\ parse_op \in LabelOps
     /\ parse_result # NotParsed
     /\ Match(parse_code, 0) # << >>) =>
        /\ parse_result.exc = "none"
        /\ parse_result.value =
             BinaryValue([i \in 1..Len(Match(parse_code, 0)) |->
                            IF Match(parse_code, 0)[i] = "\t" THEN 1 ELSE 0])

C20_ConditionalJumpSuccessors ==
    [][(/\ pc = "step"
        /\ states[cur].ip < Len(instructions)
        /\ instructions[states[cur].ip + 1].op \in ConditionalOps
        /\ StateView(cur).stack # << >>
        /\ View(states'[cur], objects').stack = Pop(StateView(cur).stack)) =>
        LET old == StateView(cur)
            new == View(states'[cur], objects')
            ins == instructions[old.ip + 1]
            top == Top(old.stack)
            b == old.bitlength
            P == old.constraints
            c == Condition(ins.op, top)
            jump == [ip |-> labels[ins.parameter], constraints |-> Append(P, c)]
            fall == [ip |-> old.ip + 1, constraints |-> Append(P, Not(c))]
            Branch(d) == [ip |-> d.ip, constraints |-> d.constraints]
        IN IF ~IsExpr(top)
           THEN /\ Len(states') = Len(states)
                /\ new.constraints = P
                /\ pc' = "step"
                /\ new.ip = IF \/ ins.op = "JUMP_IF_ZERO" /\ top.n = 0
                               \/ ins.op = "JUMP_IF_NEGATIVE" /\ top.n < 0
                            THEN labels[ins.parameter] ELSE old.ip + 1
           ELSE Evaluable(c, old.store) =>
                LET mine == IF EvalExpr(c, old.store, b) THEN jump ELSE fall
                    other == IF EvalExpr(c, old.store, b) THEN fall ELSE jump
                IN /\ Branch(new) = mine
                   /\ Models(mine.constraints, b) # {}
                   /\ Len(states') = Len(states) + 1 <=> Models(other.constraints, b) # {}
                   /\ Len(states') = Len(states) + 1 =>
                        Branch(View(states'[Len(states')], objects')) = other
    ]_vars

\* A symbolic conditional jump returned one successor, the other branch
\* having no model: the state holds the negation of the condition twice.
C20_Witness ==
    /\ instructions = ProgLoop
    /\ Len(states) = 2
    /\ \E id \in DOMAIN states :
         /\ Len(StateView(id).constraints) = 3
         /\ StateView(id).constraints[2] = StateView(id).constraints[3]

\* The constraints the caller added to the entry state have a model.
EntryConstraintsSatisfiable ==
    \A e \in Entries :
        (e.instructions = instructions /\ e.stdin = stdin) =>
            Models(e.constraints, e.bitlength) # {}

\* The states that are in none of the stash errored.
Unerrored == active \o found \o avoided \o deadended

\* C21: when the constraints of the entry state are satisfiable, every state
\* in active, found, avoided or deadended that executed a READ has a
\* satisfiable constraint list, and its store binds the variables of the
\* list to values that satisfy it.
C21_PathConstraintSatisfiable ==
    EntryConstraintsSatisfiable =>
        \A i \in 1..Len(Unerrored) :
            LET d == StateView(Unerrored[i])
            IN reads[Unerrored[i]] # << >> =>
                 /\ Models(d.constraints, d.bitlength) # {}
                 /\ ConstraintVars(d.constraints) \subseteq DOMAIN d.store
                 /\ Satisfies(d.store, d.constraints, d.bitlength)

\* C22: every state in deadended ended by EXIT (its ip is one past an EXIT)
\* or ran out of program: a state whose READ made its constraint list
\* unsatisfiable is not among them.
C22_DeadendedEndedByExit ==
    \A i \in 1..Len(deadended) :
        LET d == StateView(deadended[i])
        IN \/ d.ip >= Len(instructions)
           \/ d.ip >= 1 /\ instructions[d.ip].op = "EXIT"

\* C23: a conditional jump on an int is stepped whatever loop_limit is: it
\* increments no loop count and drops no state.  For a program that reaches
\* no READ and ends by EXIT, explore() without find and avoid returns, under
\* every loop_limit, after the steps of the concrete run, with the output of
\* the concrete run, every loop count 0 and no state dropped.
C23_ConcreteConditionalUnbudgeted ==
    [][/\ (/\ pc = "step"
           /\ steps' = steps + 1
           /\ states[cur].ip < Len(instructions)
           /\ instructions[states[cur].ip + 1].op \in ConditionalOps
           /\ StateView(cur).stack # << >>
           /\ ~IsExpr(Top(StateView(cur).stack))) =>
            /\ loop_counts' = loop_counts
            /\ dropped' = dropped
            /\ View(states'[cur], objects').stack = Pop(StateView(cur).stack)
            /\ pc' = "step"
       /\ (/\ pc' = "done"
           /\ pc # "done"
           /\ find = NoCondition
           /\ avoid = NoCondition
           /\ ConcretelyDetermined(instructions)) =>
            LET r == RefRun(instructions, << >>)
            IN /\ steps' = r.steps
               /\ Len(deadended') = 1
               /\ Join(View(states'[deadended'[1]], objects').stdout) = r.out
               /\ dropped' = {}
               /\ \A ip \in DOMAIN loop_counts' : loop_counts'[ip] = 0
    ]_vars

\* The concrete loop of ProgCount ran to its end under loop_limit 0.
C23_Witness ==
    /\ instructions = ProgCount
    /\ loop_limit = 0
    /\ find = NoCondition
    /\ avoid = NoCondition
    /\ Returned
    /\ Len(deadended) = 1
    /\ Join(StateView(deadended[1]).stdout) = <<49, 10, 50, 10>>
    /\ dropped = {}

\* C24: CALL at ip i to a marked label pushes i + 1 on the callstack and
\* moves to labels[label]; RETURN pops the last return address pushed and
\* moves there; with an empty callstack RETURN leaves the callstack and the
\* ip as they are and the state goes to errored.  No other operation changes
\* the callstack of the state, and a clone starts with the callstack of its
\* parent, so the depth is the CALLs minus the RETURNs of the path.
C24_CallReturn ==
    [][(/\ pc = "step"
        /\ steps' = steps + 1
        /\ states[cur].ip < Len(instructions)) =>
        LET old == StateView(cur)
            new == View(states'[cur], objects')
            ins == instructions[old.ip + 1]
        IN /\ (ins.op = "CALL" /\ ins.parameter \in DOMAIN labels) =>
                /\ new.callstack = Append(old.callstack, old.ip + 1)
                /\ new.ip = labels[ins.parameter]
                /\ pc' = "step"
           /\ (ins.op = "RETURN" /\ old.callstack # << >>) =>
                /\ new.callstack = SubSeq(old.callstack, 1, Len(old.callstack) - 1)
                /\ new.ip = old.callstack[Len(old.callstack)]
                /\ pc' = "step"
           /\ (ins.op = "RETURN" /\ old.callstack = << >>) =>
                /\ new.callstack = << >>
                /\ new.ip = old.ip
                /\ errored' = Append(errored, cur)
           /\ ins.op \notin {"CALL", "RETURN"} => new.callstack = old.callstack
           /\ Len(states') > Len(states) =>
                View(states'[Len(states')], objects').callstack = new.callstack
    ]_vars

\* Two calls are nested in ProgNest: the callstack holds the return address
\* of the first below that of the second.
C24_Witness ==
    /\ instructions = ProgNest
    /\ StateView(1).callstack = <<1, 4>>
    /\ StateView(1).ip = 5

\* A RETURN on an empty callstack was stepped: the state is in errored,
\* still on the RETURN.
C24_WitnessEmpty ==
    /\ instructions = ProgErrors
    /\ \E i \in 1..Len(errored) :
         /\ StateView(errored[i]).ip = 10
         /\ StateView(errored[i]).callstack = << >>

\* The cells of a heap: the set of its (index, value) pairs.
HeapCells(heap) == {<<heap[i].key, heap[i].val>> : i \in 1..Len(heap)}

\* C25: STORE pops the value, then the index, and leaves the value in the
\* cell of the index, every other cell as it was.  RETRIEVE pops the index
\* and pushes the value of its cell; for an index never written it pushes 0
\* and the heap holds 0 there afterwards; no other cell changes.  Apart from
\* the READs no other operation changes the heap, so a RETRIEVE after a
\* STORE to the same index gives the value stored.
C25_HeapCells ==
    [][(/\ pc = "step"
        /\ steps' = steps + 1
        /\ states[cur].ip < Len(instructions)) =>
        LET old == StateView(cur)
            new == View(states'[cur], objects')
            ins == instructions[old.ip + 1]
            depth == Len(old.stack)
        IN /\ (ins.op = "STORE" /\ depth >= 2) =>
                LET value == old.stack[depth]
                    index == old.stack[depth - 1]
                IN /\ new.stack = SubSeq(old.stack, 1, depth - 2)
                   /\ HeapCells(new.heap) =
                        {c \in HeapCells(old.heap) : c[1] # index}
                            \cup {<<index, value>>}
           /\ (ins.op = "RETRIEVE" /\ depth >= 1) =>
                LET index == old.stack[depth]
                    written == {c \in HeapCells(old.heap) : c[1] = index}
                IN IF written = {}
                   THEN /\ new.stack = [old.stack EXCEPT ![depth] = IntV(0)]
                        /\ HeapCells(new.heap) =
                             HeapCells(old.heap) \cup {<<index, IntV(0)>>}
                   ELSE /\ new.stack = [old.stack EXCEPT ![depth] = DictGet(old.heap, index)]
                        /\ written = {<<index, DictGet(old.heap, index)>>}
                        /\ HeapCells(new.heap) = HeapCells(old.heap)
           /\ ins.op \notin {"STORE", "RETRIEVE", "READ_CHAR", "READ_NUMBER"} =>
                new.heap = old.heap
    ]_vars

\* ProgHeap retrieved 0 from cell 1, never written, then wrote 7 there and
\* retrieved the 5 it stored in cell 2.
C25_Witness ==
    /\ instructions = ProgHeap
    /\ StateView(1).stack = <<IntV(0), IntV(5)>>
    /\ HeapCells(StateView(1).heap) = {<<IntV(1), IntV(7)>>, <<IntV(2), IntV(5)>>}

\* floor(a / b) for b # 0: the q with a = q * b + r, r between 0 and b, b
\* excluded.
FloorQuotient(a, b) ==
    LET bound == (IF a < 0 THEN 0 - a ELSE a) + 1
    IN CHOOSE q \in (0 - bound)..bound :
         LET r == a - q * b
         IN IF b > 0 THEN 0 <= r /\ r < b ELSE b < r /\ r <= 0

ArithmeticOps == {"ADD", "SUB", "MUL", "DIV", "MOD"}

\* C26: on two ints, a below b on the stack top, ADD, SUB, MUL, DIV and MOD
\* replace them by a + b, a - b, a * b, floor(a / b) and a - b * floor(a / b)
\* (b not 0), so the depth decreases by one.  DIV and MOD by a divisor that
\* evaluates to 0 pop both operands, push nothing and the state goes to
\* errored.
C26_ConcreteArithmetic ==
    [][(/\ pc = "step"
        /\ steps' = steps + 1
        /\ states[cur].ip < Len(instructions)
        /\ instructions[states[cur].ip + 1].op \in ArithmeticOps
        /\ Len(StateView(cur).stack) >= 2) =>
        LET old == StateView(cur)
            new == View(states'[cur], objects')
            op == instructions[old.ip + 1].op
            depth == Len(old.stack)
            rest == SubSeq(old.stack, 1, depth - 2)
            lhs == old.stack[depth - 1]
            rhs == old.stack[depth]
            zero == /\ op \in {"DIV", "MOD"}
                    /\ Evaluable(rhs, old.store)
                    /\ SolverEval(rhs, old.store, old.bitlength) = 0
        IN /\ zero => /\ new.stack = rest
                      /\ new.ip = old.ip
                      /\ errored' = Append(errored, cur)
           /\ (~zero /\ ~IsExpr(lhs) /\ ~IsExpr(rhs)) =>
                LET a == lhs.n
                    b == rhs.n
                    result == CASE op = "ADD" -> a + b
                                [] op = "SUB" -> a - b
                                [] op = "MUL" -> a * b
                                [] op = "DIV" -> FloorQuotient(a, b)
                                [] op = "MOD" -> a - b * FloorQuotient(a, b)
                IN /\ new.stack = Append(rest, IntV(result))
                   /\ new.ip = old.ip + 1
                   /\ errored' = errored
    ]_vars

\* ProgArith divided 7 by -2 and took -7 modulo -2: it printed "-4" and "-1".
C26_Witness ==
    /\ instructions = ProgArith
    /\ Join(StateView(1).stdout) = <<45, 52, 45, 49>>

\* ProgArith took 3 modulo 0: the state is in errored, both operands popped.
C26_WitnessZero ==
    /\ instructions = ProgArith
    /\ errored = <<1>>
    /\ StateView(1).ip = 10
    /\ StateView(1).stack = << >>

\* C27: COPY_TO_TOP k on a stack of depth n pushes a copy of the element k
\* below the top when 0 <= k < n; for every other k, the negative ones
\* included, the stack stays as it is and the state goes to errored.
C27_CopyToTopRange ==
    [][(/\ pc = "step"
        /\ steps' = steps + 1
        /\ states[cur].ip < Len(instructions)
        /\ instructions[states[cur].ip + 1].op = "COPY_TO_TOP") =>
        LET old == StateView(cur)
            new == View(states'[cur], objects')
            k == instructions[old.ip + 1].parameter
            depth == Len(old.stack)
        IN IF 0 <= k /\ k < depth
           THEN /\ new.stack = Append(old.stack, old.stack[depth - k])
                /\ new.ip = old.ip + 1
                /\ errored' = errored
           ELSE /\ new.stack = old.stack
                /\ new.ip = old.ip
                /\ errored' = Append(errored, cur)
    ]_vars

\* What the claim compares of a state that ended: the stash it ended in, its
\* ip, its stdout and its path constraint.
Leaf(stash, d) ==
    [stash |-> stash, ip |-> d.ip, stdout |-> d.stdout, constraints |-> d.constraints]
LeafPath(leaf) ==
    [stash |-> leaf.stash, ip |-> leaf.ip, constraints |-> leaf.constraints]

\* The ends of the paths of the program from the view d, with no scheduling:
\* every state is stepped until it ends, under every answer z3 may give.
\* A path the program raises on ends in "raise", one longer than fuel in
\* "fuel".
RECURSIVE PathLeaves(_, _)
PathLeaves(d, fuel) ==
    IF fuel = 0 THEN {Leaf("fuel", d)}
    ELSE IF d.ip >= Len(instructions) THEN {Leaf("raise", d)}
    ELSE LET ins == instructions[d.ip + 1]
         IN UNION {LET r == Exec(d, ins, labels, ans)
                   IN IF r.exc \in SymbolicExecutionErrors THEN {Leaf("errored", r.d)}
                      ELSE IF r.exc # "none" THEN {Leaf("raise", r.d)}
                      ELSE IF r.succ = << >> THEN {Leaf("deadended", r.d)}
                      ELSE IF Len(r.succ) = 1 THEN PathLeaves(r.d, fuel - 1)
                      ELSE PathLeaves(r.d, fuel - 1) \cup PathLeaves(r.clone, fuel - 1) :
                   ans \in Answers(Query(d, ins), d.bitlength)}

\* The view of the entry state: the constraints of the caller are the
\* longest list of an entry of this program and stdin that the constraint
\* list of the entry state starts with.
EntryView ==
    LET mine == {e \in Entries : /\ e.instructions = instructions
                                 /\ e.stdin = stdin
                                 /\ e.bitlength = StateView(1).bitlength
                                 /\ IsPrefix(e.constraints, StateView(1).constraints)}
        e == CHOOSE x \in mine : \A y \in mine : Len(y.constraints) <= Len(x.constraints)
    IN View(NewState(0, stdin # << >>, e.bitlength),
            [NewObjects(0) EXCEPT ![4] = stdin, ![9] = e.constraints])

\* The states that ended in deadended and in errored, as leaves.
EndedLeaves ==
    [i \in 1..Len(deadended) |-> Leaf("deadended", StateView(deadended[i]))]
    \o [i \in 1..Len(errored) |-> Leaf("errored", StateView(errored[i]))]

RECURSIVE IsSum(_)
IsSum(e) ==
    CASE e.k \in {"int", "var"} -> TRUE
      [] e.k \in {"add", "sub", "mul"} -> IsSum(e.l) /\ IsSum(e.r)
      [] OTHER -> FALSE

\* C29: in a state whose store gives every input a value in 0..255, each
\* value on the stack built by PUSH, ADD, SUB and MUL evaluates under the
\* store, at the width of the state, to what the same operations give on
\* unbounded ints; and a conditional jump on such a value decides as it
\* would on the unbounded int.
C29_SymbolicAgreesWithConcrete ==
    \A id \in DOMAIN states :
        LET d == StateView(id)
        IN (\A v \in DOMAIN d.store : d.store[v] \in 0..ByteMax) =>
             /\ \A i \in 1..Len(d.stack) :
                  (IsSum(d.stack[i]) /\ Evaluable(d.stack[i], d.store)) =>
                      SolverEval(d.stack[i], d.store, d.bitlength)
                          = EvalExpr(d.stack[i], d.store, 0)
             /\ (/\ d.ip < Len(instructions)
                 /\ instructions[d.ip + 1].op \in ConditionalOps
                 /\ d.stack # << >>
                 /\ IsSum(Top(d.stack))
                 /\ Evaluable(Top(d.stack), d.store)) =>
                    LET c == Condition(instructions[d.ip + 1].op, Top(d.stack))
                    IN EvalExpr(c, d.store, d.bitlength) = EvalExpr(c, d.store, 0)

TypeOK ==
    /\ pc \in {"run", "for", "step", "done", "raised"}
    /\ Len(objects) = ObjectsPerState * Len(states)
====
